---------------------------- MODULE Spec2Model ----------------------------
(***************************************************************************)
(* Model of the ag-lcd HD44780 driver (src/src/display.rs, errors.rs).     *)
(*                                                                         *)
(* The driver is sequential: every public method runs to completion, so    *)
(* each method is one action.  A method's effect on the outside world is   *)
(* the ordered list of pin writes and delays it performs; that list is     *)
(* kept, for the most recent method only, in the variable log.             *)
(***************************************************************************)
EXTENDS Integers, Sequences, FiniteSets

(***************************************************************************)
(* Bounds of the model.                                                    *)
(***************************************************************************)
\* builder (with_*) calls explored before and after build()
MaxCfg == 2
\* characters in a text handed to print()
MaxText == 2
\* scroll distance handed to set_scroll()
MaxDist == 2

(***************************************************************************)
(* Program constants, display.rs                                           *)
(***************************************************************************)
ClearDisplay == 1
ReturnHome == 2
SetDisplayMode == 4
SetDisplayCtrl == 8
CursorShift == 16
SetDisplayFunc == 32
SetCGramAddr == 64
SetDDRAMAddr == 128

MoveDisplay == 8

LayoutRightToLeft == 0
LayoutLeftToRight == 2
AutoScrollOn == 1
AutoScrollOff == 0
DisplayOn == 4
DisplayOff == 0
CursorOn == 2
CursorOff == 0
BlinkOn == 1
BlinkOff == 0
BacklightOn == 0
BacklightOff == 1
ScrollRight == 4
ScrollLeft == 0
EightBits == 16
FourBits == 0
FourLines == 12
TwoLines == 8
OneLine == 0
Dots5x10 == 4
Dots5x8 == 0

DEFAULT_COLS == 16
DEFAULT_DISPLAY_FUNC == 0
DEFAULT_DISPLAY_CTRL == 4
DEFAULT_DISPLAY_MODE == 2

CMD_DELAY == 3500
CHR_DELAY == 450

RS == 0
EN == 1
RW == 2
D0 == 3
D1 == 4
D2 == 5
D3 == 6
D4 == 7
D5 == 8
D6 == 9
D7 == 10
A == 11

Slots == 0..11

\* the lines whose level is followed from one method to the next: the control
\* lines and the backlight.  What a data line carries at an enable pulse is
\* read from the log of the method that wrote it.
ControlLines == {RS, EN, RW, A}

(***************************************************************************)
(* Error discriminants, errors.rs                                          *)
(***************************************************************************)
ErrNone == 11
ErrInvalidMode == 12
ErrInvalidCode == 13

\* the conversion with every arm moved down by one
ErrorFrom_shifted(v) ==
    IF v + 1 <= 12 THEN v + 1 ELSE ErrInvalidCode

\* impl From<u8> for Error
ErrorFrom(v) ==
    IF v <= 12 THEN v ELSE ErrInvalidCode

(***************************************************************************)
(* u8 arithmetic                                                           *)
(***************************************************************************)
Bit(x, k) ==
    (x \div (2 ^ k)) % 2

And8(a, b) ==
    Bit(a, 0) * Bit(b, 0) + 2 * (Bit(a, 1) * Bit(b, 1))
    + 4 * (Bit(a, 2) * Bit(b, 2)) + 8 * (Bit(a, 3) * Bit(b, 3))
    + 16 * (Bit(a, 4) * Bit(b, 4)) + 32 * (Bit(a, 5) * Bit(b, 5))
    + 64 * (Bit(a, 6) * Bit(b, 6)) + 128 * (Bit(a, 7) * Bit(b, 7))

Or8(a, b) ==
    a + b - And8(a, b)

Not8(a) ==
    255 - a

Shr(x, k) ==
    x \div (2 ^ k)

Shl8(x, k) ==
    (x * (2 ^ k)) % 256

\* `x as u8` for a char or wider integer
AsU8(x) ==
    x % 256

Clamp(x, lo, hi) ==
    IF x < lo THEN lo ELSE IF x > hi THEN hi ELSE x


(***************************************************************************)
(* State of one LcdDisplay value and of the lines it drives.               *)
(***************************************************************************)
VARIABLES
    pins,          \* set of slots holding Some(pin)
    display_func,  \* function register
    display_mode,  \* entry-mode register
    display_ctrl,  \* control register
    offsets,       \* row offset table, indices 0..3
    code,          \* error code (discriminant of Error)
    level,         \* electrical level of each control line (TRUE = high)
    broken,        \* slots whose pin driver returns Err on every drive
    en0,           \* level of EN when the most recent method began
    log,           \* pin writes and delays of the most recent method
    op,            \* name of the most recent method
    args,          \* its arguments, as numbers
    phase,         \* "cfg" before build(), "run" after it, "recfg" once a with_* follows build()
    ncfg,          \* builder calls made so far
    panicked       \* the program aborted on an arithmetic overflow

vars ==
    <<pins, display_func, display_mode, display_ctrl, offsets, code, level,
      broken, en0, log, op, args, phase, ncfg, panicked>>

\* The value `self` at the start of a method.  ev collects what the method
\* does to the pins and the delay provider, in order.
Self ==
    [pins |-> pins, display_func |-> display_func, display_mode |-> display_mode,
     display_ctrl |-> display_ctrl, offsets |-> offsets, code |-> code,
     broken |-> broken, ev |-> <<>>, panicked |-> FALSE]

(***************************************************************************)
(* Events.  k = "set": a call of fn set; k = "drive": a pin driven         *)
(* directly (backlight); k = "delay": delay_us.  res is "ok" when the pin  *)
(* was driven, "err" when its driver returned Err, "nopin" when the slot   *)
(* is empty.  A method is modelled by the sequence of events it produces   *)
(* and by the value of self it leaves.                                     *)
(***************************************************************************)
Event(kind, i, v, r, n) ==
    [k |-> kind, pin |-> i, val |-> v, res |-> r, us |-> n]

\* self.delay.delay_us(n)
delay_us(n) ==
    <<Event("delay", -1, FALSE, "ok", n)>>

\* what driving slot index gives: the slot is empty, its driver fails, or
\* the line moves
outcome(s, index) ==
    IF index \notin s.pins THEN "nopin"
    ELSE IF index \in s.broken THEN "err"
    ELSE "ok"

\* ev[j] is a call of fn set whose map/flatten/is_none chain was true
failed(ev, j) ==
    ev[j].k = "set" /\ ev[j].res # "ok"

\* code_after with the code cleared by a method all of whose writes succeed
code_after_cleared(c, ev) ==
    IF \E j \in 1..Len(ev) : failed(ev, j)
    THEN ErrorFrom(ev[CHOOSE j \in 1..Len(ev) :
                          failed(ev, j)
                          /\ \A k \in (j + 1)..Len(ev) : ~failed(ev, k)].pin)
    ELSE ErrNone

\* self.code after the calls of fn set in ev: every call that found the slot
\* empty or whose drive failed stored index.into(), the last one stands
code_after(c, ev) ==
    IF \E j \in 1..Len(ev) : failed(ev, j)
    THEN ErrorFrom(ev[CHOOSE j \in 1..Len(ev) :
                          failed(ev, j)
                          /\ \A k \in (j + 1)..Len(ev) : ~failed(ev, k)].pin)
    ELSE c

\* the levels of the control lines after the events ev[lo..hi], lv being the levels
\* before: every drive that succeeded moved its line
RECURSIVE levels_after(_, _, _, _)
levels_after(lv, ev, lo, hi) ==
    IF lo > hi THEN lv
    ELSE IF lo = hi
    THEN IF ev[lo].k # "delay" /\ ev[lo].res = "ok" /\ ev[lo].pin \in ControlLines
         THEN [lv EXCEPT ![ev[lo].pin] = ev[lo].val]
         ELSE lv
    ELSE CHOOSE after \in {levels_after(half, ev, (lo + hi) \div 2 + 1, hi) :
                               half \in {levels_after(lv, ev, lo, (lo + hi) \div 2)}} : TRUE

\* self after a method body made the calls ev
perform(s, ev) ==
    [s EXCEPT !.ev = @ \o ev, !.code = code_after(@, ev)]

(***************************************************************************)
(* Getters                                                                 *)
(***************************************************************************)
mode(s) ==
    IF And8(s.display_func, EightBits) = 0 THEN FourBits ELSE EightBits

layout(s) ==
    IF And8(s.display_mode, LayoutLeftToRight) = 0 THEN LayoutRightToLeft ELSE LayoutLeftToRight

display(s) ==
    IF And8(s.display_ctrl, DisplayOn) = 0 THEN DisplayOff ELSE DisplayOn

cursor(s) ==
    IF And8(s.display_ctrl, CursorOn) = 0 THEN CursorOff ELSE CursorOn

\* blink decoded from the cursor bit
blink_reads_cursor(s) ==
    IF And8(s.display_ctrl, CursorOn) = 0 THEN BlinkOff ELSE BlinkOn

blink(s) ==
    IF And8(s.display_ctrl, BlinkOn) = 0 THEN BlinkOff ELSE BlinkOn

autoscroll(s) ==
    IF And8(s.display_mode, AutoScrollOn) = 0 THEN AutoScrollOff ELSE AutoScrollOn

lines(s) ==
    LET flag_bits == And8(s.display_func, 12)
    IN  IF flag_bits = FourLines THEN FourLines
        ELSE IF flag_bits = TwoLines THEN TwoLines
        ELSE OneLine

error(s) ==
    s.code

exists(s, index) ==
    index \in s.pins

(***************************************************************************)
(* Pin level protocol: the calls each private method makes, in order       *)
(***************************************************************************)
\* fn set: one call, with what it found.  The map/flatten/is_none chain is
\* true, and self.code = index.into() runs (code_after), both when the slot
\* is empty and when the drive returns Err.
set(s, index, value) ==
    <<Event("set", index, value, outcome(s, index), 0)>>

pulse(s) ==
    set(s, EN, TRUE) \o set(s, EN, FALSE)

\* update with the data lines written before EN is forced low
update_data_first(s, byte) ==
    (IF mode(s) = FourBits
     THEN set(s, D7, Bit(byte, 3) > 0)
          \o set(s, D6, Bit(byte, 2) > 0)
          \o set(s, D5, Bit(byte, 1) > 0)
          \o set(s, D4, Bit(byte, 0) > 0)
     ELSE set(s, D7, Bit(byte, 7) > 0)
          \o set(s, D6, Bit(byte, 6) > 0)
          \o set(s, D5, Bit(byte, 5) > 0)
          \o set(s, D4, Bit(byte, 4) > 0)
          \o set(s, D3, Bit(byte, 3) > 0)
          \o set(s, D2, Bit(byte, 2) > 0)
          \o set(s, D1, Bit(byte, 1) > 0)
          \o set(s, D0, Bit(byte, 0) > 0))
    \o set(s, EN, TRUE)
    \o set(s, EN, FALSE)

\* update given up at the first data line whose slot is empty
update_abandoned(s, byte) ==
    set(s, EN, FALSE)
    \o (IF mode(s) = FourBits
        THEN set(s, D7, Bit(byte, 3) > 0)
             \o (IF exists(s, D7)
                 THEN set(s, D6, Bit(byte, 2) > 0)
                      \o set(s, D5, Bit(byte, 1) > 0)
                      \o set(s, D4, Bit(byte, 0) > 0)
                      \o pulse(s)
                 ELSE <<>>)
        ELSE set(s, D7, Bit(byte, 7) > 0)
             \o (IF exists(s, D7)
                 THEN set(s, D6, Bit(byte, 6) > 0)
                      \o set(s, D5, Bit(byte, 5) > 0)
                      \o set(s, D4, Bit(byte, 4) > 0)
                      \o set(s, D3, Bit(byte, 3) > 0)
                      \o set(s, D2, Bit(byte, 2) > 0)
                      \o set(s, D1, Bit(byte, 1) > 0)
                      \o set(s, D0, Bit(byte, 0) > 0)
                      \o pulse(s)
                 ELSE <<>>))

update(s, byte) ==
    set(s, EN, FALSE)
    \o (IF mode(s) = FourBits
        THEN set(s, D7, Bit(byte, 3) > 0)
             \o set(s, D6, Bit(byte, 2) > 0)
             \o set(s, D5, Bit(byte, 1) > 0)
             \o set(s, D4, Bit(byte, 0) > 0)
        ELSE set(s, D7, Bit(byte, 7) > 0)
             \o set(s, D6, Bit(byte, 6) > 0)
             \o set(s, D5, Bit(byte, 5) > 0)
             \o set(s, D4, Bit(byte, 4) > 0)
             \o set(s, D3, Bit(byte, 3) > 0)
             \o set(s, D2, Bit(byte, 2) > 0)
             \o set(s, D1, Bit(byte, 1) > 0)
             \o set(s, D0, Bit(byte, 0) > 0))
    \o pulse(s)

\* send with the two nibbles in the wrong order
send_low_first(s, byte, md) ==
    set(s, RS, md)
    \o (IF exists(s, RW) THEN set(s, RW, FALSE) ELSE <<>>)
    \o (IF mode(s) = FourBits
        THEN update(s, byte) \o update(s, Shr(byte, 4))
        ELSE update(s, byte))

\* send that leaves RW alone
send_without_rw(s, byte, md) ==
    set(s, RS, md)
    \o (IF mode(s) = FourBits
        THEN update(s, Shr(byte, 4)) \o update(s, byte)
        ELSE update(s, byte))

\* send that transmits the high nibble only
send_single_nibble(s, byte, md) ==
    set(s, RS, md)
    \o (IF exists(s, RW) THEN set(s, RW, FALSE) ELSE <<>>)
    \o (IF mode(s) = FourBits
        THEN update(s, Shr(byte, 4))
        ELSE update(s, byte))

\* send that writes RW without asking whether the slot holds a pin
send_rw_unchecked(s, byte, md) ==
    set(s, RS, md)
    \o set(s, RW, FALSE)
    \o (IF mode(s) = FourBits
        THEN update(s, Shr(byte, 4)) \o update(s, byte)
        ELSE update(s, byte))

send(s, byte, md) ==
    set(s, RS, md)
    \o (IF exists(s, RW) THEN set(s, RW, FALSE) ELSE <<>>)
    \o (IF mode(s) = FourBits
        THEN update(s, Shr(byte, 4)) \o update(s, byte)
        ELSE update(s, byte))

command(s, value) ==
    send(s, value, FALSE)

\* write with the register selection of a command
write_as_command(s, value) ==
    delay_us(CHR_DELAY) \o send(s, value, FALSE)

\* fn write, the calls it makes
write_calls(s, value) ==
    delay_us(CHR_DELAY) \o send(s, value, TRUE)

write(s, value) ==
    perform(s, write_calls(s, value))

\* the writes of the characters of text, last character first
RECURSIVE print_calls_reversed(_, _)
print_calls_reversed(s, text) ==
    IF Len(text) = 0 THEN <<>>
    ELSE print_calls_reversed(s, Tail(text)) \o write_calls(s, AsU8(Head(text)))

\* the writes of the characters of text, each cast to u8
RECURSIVE print_calls(_, _)
print_calls(s, text) ==
    IF Len(text) = 0 THEN <<>>
    ELSE write_calls(s, AsU8(Head(text))) \o print_calls(s, Tail(text))

print(s, text) ==
    perform(s, print_calls(s, text))

\* fn validate, as written: the error is stored when the match yields true,
\* that is when one of the data slots of the bus width holds a pin
validate(s) ==
    IF (IF mode(s) = FourBits
        THEN exists(s, D4) \/ exists(s, D5) \/ exists(s, D6) \/ exists(s, D7)
        ELSE exists(s, D0) \/ exists(s, D1) \/ exists(s, D2) \/ exists(s, D3)
             \/ exists(s, D4) \/ exists(s, D5) \/ exists(s, D6) \/ exists(s, D7))
    THEN [s EXCEPT !.code = ErrInvalidMode]
    ELSE s

(***************************************************************************)
(* Runtime operations                                                      *)
(***************************************************************************)
\* clear that also puts the function register back to its default
clear_resets_function(s) ==
    perform([s EXCEPT !.display_func = DEFAULT_DISPLAY_FUNC],
            command(s, ClearDisplay) \o delay_us(CMD_DELAY))

clear(s) ==
    perform(s, command(s, ClearDisplay) \o delay_us(CMD_DELAY))

home(s) ==
    perform(s, command(s, ReturnHome) \o delay_us(CMD_DELAY))

\* set_position without the clamp to the configured line count
set_position_rows_unchecked(s, col, row, checks) ==
    LET max_lines == 4
        r1 == IF row >= max_lines THEN max_lines - 1 ELSE row
        sum == col + s.offsets[r1]
    IN  IF sum > 255 /\ checks
        THEN [s EXCEPT !.panicked = TRUE]
        ELSE perform(s, command(s, Or8(SetDDRAMAddr, sum % 256))
                        \o delay_us(CMD_DELAY))

\* set_position with a row of 4 or more wrapped around instead of clamped
set_position_wrapping(s, col, row, checks) ==
    LET max_lines == 4
        num_lines == IF lines(s) = FourLines THEN 4
                     ELSE IF lines(s) = TwoLines THEN 2 ELSE 1
        r1 == row % max_lines
        r2 == IF r1 >= num_lines THEN num_lines - 1 ELSE r1
        sum == col + s.offsets[r2]
    IN  IF sum > 255 /\ checks
        THEN [s EXCEPT !.panicked = TRUE]
        ELSE perform(s, command(s, Or8(SetDDRAMAddr, sum % 256))
                        \o delay_us(CMD_DELAY))

\* pos += offsets[row] is u8 arithmetic: on overflow the program aborts when
\* it was built with overflow checks and wraps when it was built without
set_position(s, col, row, checks) ==
    LET max_lines == 4
        num_lines == IF lines(s) = FourLines THEN 4
                     ELSE IF lines(s) = TwoLines THEN 2 ELSE 1
        r1 == IF row >= max_lines THEN max_lines - 1 ELSE row
        r2 == IF r1 >= num_lines THEN num_lines - 1 ELSE r1
        sum == col + s.offsets[r2]
    IN  IF sum > 255 /\ checks
        THEN [s EXCEPT !.panicked = TRUE]
        ELSE perform(s, command(s, Or8(SetDDRAMAddr, sum % 256))
                        \o delay_us(CMD_DELAY))

\* the loop of set_scroll over 0..=distance
RECURSIVE scroll_loop_inclusive(_, _, _)
scroll_loop_inclusive(s, cmd, n) ==
    IF n = 0 THEN command(s, cmd) \o delay_us(CMD_DELAY)
    ELSE command(s, cmd) \o delay_us(CMD_DELAY) \o scroll_loop_inclusive(s, cmd, n - 1)

RECURSIVE scroll_loop(_, _, _)
scroll_loop(s, cmd, n) ==
    IF n = 0 THEN <<>>
    ELSE command(s, cmd) \o delay_us(CMD_DELAY) \o scroll_loop(s, cmd, n - 1)

set_scroll(s, direction, distance) ==
    perform(s, scroll_loop(s, Or8(Or8(CursorShift, MoveDisplay), direction), distance))

\* set_layout sending the register as it was before the update
set_layout_stale(s, v) ==
    LET m == IF v = LayoutLeftToRight
             THEN Or8(s.display_mode, LayoutLeftToRight)
             ELSE And8(s.display_mode, Not8(LayoutLeftToRight))
    IN  perform([s EXCEPT !.display_mode = m],
                command(s, Or8(SetDisplayMode, s.display_mode)) \o delay_us(CMD_DELAY))

set_layout(s, v) ==
    LET m == IF v = LayoutLeftToRight
             THEN Or8(s.display_mode, LayoutLeftToRight)
             ELSE And8(s.display_mode, Not8(LayoutLeftToRight))
    IN  perform([s EXCEPT !.display_mode = m],
                command(s, Or8(SetDisplayMode, m)) \o delay_us(CMD_DELAY))

set_display(s, v) ==
    LET c == IF v = DisplayOn
             THEN Or8(s.display_ctrl, DisplayOn)
             ELSE And8(s.display_ctrl, Not8(DisplayOn))
    IN  perform([s EXCEPT !.display_ctrl = c],
                command(s, Or8(SetDisplayCtrl, c)) \o delay_us(CMD_DELAY))

\* set_cursor whose Off arm clears the whole register
set_cursor_clears_all(s, v) ==
    LET c == IF v = CursorOn
             THEN Or8(s.display_ctrl, CursorOn)
             ELSE 0
    IN  perform([s EXCEPT !.display_ctrl = c],
                command(s, Or8(SetDisplayCtrl, c)) \o delay_us(CMD_DELAY))

set_cursor(s, v) ==
    LET c == IF v = CursorOn
             THEN Or8(s.display_ctrl, CursorOn)
             ELSE And8(s.display_ctrl, Not8(CursorOn))
    IN  perform([s EXCEPT !.display_ctrl = c],
                command(s, Or8(SetDisplayCtrl, c)) \o delay_us(CMD_DELAY))

set_blink(s, v) ==
    LET c == IF v = BlinkOn
             THEN Or8(s.display_ctrl, BlinkOn)
             ELSE And8(s.display_ctrl, Not8(BlinkOn))
    IN  perform([s EXCEPT !.display_ctrl = c],
                command(s, Or8(SetDisplayCtrl, c)) \o delay_us(CMD_DELAY))

\* set_autoscroll that updates the register and sends nothing
set_autoscroll_unsent(s, v) ==
    LET m == IF v = AutoScrollOn
             THEN Or8(s.display_mode, AutoScrollOn)
             ELSE And8(s.display_mode, Not8(AutoScrollOn))
    IN  [s EXCEPT !.display_mode = m]

set_autoscroll(s, v) ==
    LET m == IF v = AutoScrollOn
             THEN Or8(s.display_mode, AutoScrollOn)
             ELSE And8(s.display_mode, Not8(AutoScrollOn))
    IN  perform([s EXCEPT !.display_mode = m],
                command(s, Or8(SetDisplayMode, m)) \o delay_us(CMD_DELAY))

\* backlight_on / backlight_off drive slot A themselves and drop the result
backlight_drive(s, value) ==
    IF A \in s.pins
    THEN [s EXCEPT !.ev = @ \o <<Event("drive", A, value, outcome(s, A), 0)>>]
    ELSE s

backlight_on(s) ==
    backlight_drive(s, TRUE)

backlight_off(s) ==
    backlight_drive(s, FALSE)

set_backlight(s, v) ==
    IF v = BacklightOn THEN backlight_on(s) ELSE backlight_off(s)

\* set_character without the mask on the location
set_character_unmasked(s, location, map) ==
    perform(s, command(s, Or8(SetCGramAddr, Shl8(location, 3)))
               \o write_calls(s, map[1]) \o write_calls(s, map[2])
               \o write_calls(s, map[3]) \o write_calls(s, map[4])
               \o write_calls(s, map[5]) \o write_calls(s, map[6])
               \o write_calls(s, map[7]) \o write_calls(s, map[8]))

set_character(s, location, map) ==
    LET loc == And8(location, 7)
    IN  perform(s, command(s, Or8(SetCGramAddr, Shl8(loc, 3)))
                   \o write_calls(s, map[1]) \o write_calls(s, map[2])
                   \o write_calls(s, map[3]) \o write_calls(s, map[4])
                   \o write_calls(s, map[5]) \o write_calls(s, map[6])
                   \o write_calls(s, map[7]) \o write_calls(s, map[8]))

(***************************************************************************)
(* Builder                                                                 *)
(***************************************************************************)
\* LcdDisplay::new(rs, en, delay), the pins in bad being broken
new(bad) ==
    [pins |-> {RS, EN},
     display_func |-> DEFAULT_DISPLAY_FUNC,
     display_mode |-> DEFAULT_DISPLAY_MODE,
     display_ctrl |-> DEFAULT_DISPLAY_CTRL,
     offsets |-> [i \in 0..3 |-> CASE i = 0 -> 0
                                   [] i = 1 -> 64
                                   [] i = 2 -> 0 + DEFAULT_COLS
                                   [] OTHER -> 64 + DEFAULT_COLS],
     code |-> ErrNone,
     broken |-> bad, ev |-> <<>>, panicked |-> FALSE]

\* with_cols without the clamp to 31
with_cols_unclamped(s, c) ==
    [s EXCEPT !.offsets = [@ EXCEPT ![2] = 0 + c, ![3] = 64 + c]]

with_cols(s, c) ==
    LET cols == Clamp(c, 0, 31)
    IN  [s EXCEPT !.offsets = [@ EXCEPT ![2] = 0 + cols, ![3] = 64 + cols]]

\* with_half_bus that writes the whole function register
with_half_bus_resets(s) ==
    [s EXCEPT !.display_func = FourBits,
              !.pins = @ \cup {D4, D5, D6, D7}]

with_half_bus(s) ==
    [s EXCEPT !.display_func = And8(@, Not8(EightBits)),
              !.pins = @ \cup {D4, D5, D6, D7}]

with_full_bus(s) ==
    [s EXCEPT !.display_func = Or8(@, EightBits),
              !.pins = @ \cup {D0, D1, D2, D3, D4, D5, D6, D7}]

\* with_rw that drives the pin low as it binds it
with_rw_driving(s) ==
    perform([s EXCEPT !.pins = @ \cup {RW}],
            <<Event("set", RW, FALSE, "ok", 0)>>)

with_rw(s) ==
    [s EXCEPT !.pins = @ \cup {RW}]

with_backlight(s) ==
    [s EXCEPT !.pins = @ \cup {A}]

with_size(s, v) ==
    IF v = Dots5x10
    THEN [s EXCEPT !.display_func = Or8(@, Dots5x10)]
    ELSE [s EXCEPT !.display_func = And8(@, Not8(Dots5x10))]

with_lines(s, v) ==
    IF v = FourLines THEN [s EXCEPT !.display_func = Or8(@, FourLines)]
    ELSE IF v = TwoLines THEN [s EXCEPT !.display_func = Or8(@, TwoLines)]
    ELSE [s EXCEPT !.display_func = And8(@, Not8(TwoLines))]

with_layout(s, v) ==
    IF v = LayoutLeftToRight
    THEN [s EXCEPT !.display_mode = Or8(@, LayoutLeftToRight)]
    ELSE [s EXCEPT !.display_mode = And8(@, Not8(LayoutLeftToRight))]

with_display(s, v) ==
    IF v = DisplayOn
    THEN [s EXCEPT !.display_ctrl = Or8(@, DisplayOn)]
    ELSE [s EXCEPT !.display_ctrl = And8(@, Not8(DisplayOn))]

with_cursor(s, v) ==
    IF v = CursorOn
    THEN [s EXCEPT !.display_ctrl = Or8(@, CursorOn)]
    ELSE [s EXCEPT !.display_ctrl = And8(@, Not8(CursorOn))]

with_blink(s, v) ==
    IF v = BlinkOn
    THEN [s EXCEPT !.display_ctrl = Or8(@, BlinkOn)]
    ELSE [s EXCEPT !.display_ctrl = And8(@, Not8(BlinkOn))]

with_autoscroll(s, v) ==
    IF v = AutoScrollOn
    THEN [s EXCEPT !.display_mode = Or8(@, AutoScrollOn)]
    ELSE [s EXCEPT !.display_mode = And8(@, Not8(AutoScrollOn))]

display_on(s) ==
    set_display(s, DisplayOn)

display_off(s) ==
    set_display(s, DisplayOff)

\* one round of the loops of with_reliable_init
toggle(s, d, offFirst) ==
    IF offFirst
    THEN display_on(perform(display_off(perform(s, delay_us(d))), delay_us(d)))
    ELSE display_off(perform(display_on(perform(s, delay_us(d))), delay_us(d)))

\* with_reliable_init with two rounds in place of three
with_reliable_init_twice(s, delay_toggle) ==
    LET offFirst == s.display_ctrl = DisplayOn
    IN  toggle(toggle(s, delay_toggle, offFirst), delay_toggle, offFirst)

with_reliable_init(s, delay_toggle) ==
    LET offFirst == s.display_ctrl = DisplayOn
    IN  toggle(toggle(toggle(s, delay_toggle, offFirst),
                      delay_toggle, offFirst),
               delay_toggle, offFirst)

\* power_up with a digit of the wait lost and EN left as it was
power_up_short(s) ==
    delay_us(5000)
    \o set(s, RS, FALSE)
    \o (IF exists(s, RW) THEN set(s, RW, FALSE) ELSE <<>>)

\* build(), first lines: the power-up wait and the control lines forced low
power_up(s) ==
    delay_us(50000)
    \o set(s, RS, FALSE)
    \o set(s, EN, FALSE)
    \o (IF exists(s, RW) THEN set(s, RW, FALSE) ELSE <<>>)

\* handshake without the nibble that commits 4-bit framing
handshake_uncommitted(s) ==
    IF mode(s) = FourBits
    THEN update(s, 3) \o delay_us(4500)
         \o update(s, 3) \o delay_us(150)
         \o update(s, 3) \o delay_us(150)
         \o update(s, 3)
    ELSE command(s, Or8(SetDisplayFunc, s.display_func)) \o delay_us(4500)
         \o command(s, Or8(SetDisplayFunc, s.display_func)) \o delay_us(150)
         \o command(s, Or8(SetDisplayFunc, s.display_func))

\* the handshake of build(), by bus width
handshake(s) ==
    IF mode(s) = FourBits
    THEN update(s, 3) \o delay_us(4500)
         \o update(s, 3) \o delay_us(4500)
         \o update(s, 3) \o delay_us(150)
         \o update(s, 2)
    ELSE command(s, Or8(SetDisplayFunc, s.display_func)) \o delay_us(4500)
         \o command(s, Or8(SetDisplayFunc, s.display_func)) \o delay_us(150)
         \o command(s, Or8(SetDisplayFunc, s.display_func))

\* commit with the control register sent before the function register
commit_ctrl_first(s) ==
    command(s, Or8(SetDisplayCtrl, s.display_ctrl)) \o delay_us(CMD_DELAY)
    \o command(s, Or8(SetDisplayFunc, s.display_func)) \o delay_us(CMD_DELAY)
    \o command(s, Or8(SetDisplayMode, s.display_mode)) \o delay_us(CMD_DELAY)

\* the three registers committed after the handshake
commit(s) ==
    command(s, Or8(SetDisplayFunc, s.display_func)) \o delay_us(CMD_DELAY)
    \o command(s, Or8(SetDisplayCtrl, s.display_ctrl)) \o delay_us(CMD_DELAY)
    \o command(s, Or8(SetDisplayMode, s.display_mode)) \o delay_us(CMD_DELAY)

build(s) ==
    validate(home(clear(perform(s, power_up(s) \o handshake(s) \o commit(s)))))

(***************************************************************************)
(* Inputs explored                                                         *)
(***************************************************************************)
\* which pins are broken (their driver returns Err), at most one here
FaultSets ==
    {{}, {EN}, {D7}}

\* levels of the lines when the program starts
InitLevels ==
    {[i \in ControlLines |-> FALSE], [i \in ControlLines |-> TRUE]}

ColsInputs ==
    {0, 20, 31, 40, 255}

\* code points of the characters of a text; 321 does not fit a byte
Chars ==
    {72, 321}

Texts ==
    UNION {[1..n -> Chars] : n \in 0..MaxText}

Bytes ==
    {90, 165}

Glyphs ==
    {<<0, 10, 31, 31, 14, 4, 0, 0>>}

\* 17 is outside 0..7 and keeps a bit above the mask after the shift
Locations ==
    {1, 17}

Positions ==
    {<<8, 0>>, <<3, 1>>, <<3, 4>>, <<200, 3>>}

ToggleDelays ==
    {10000}

(***************************************************************************)
(* Actions: one per method                                                 *)
(***************************************************************************)
\* the fields of the value r, and the lines after the events r.ev
Holds(r, lv) ==
    /\ pins = r.pins
    /\ display_func = r.display_func
    /\ display_mode = r.display_mode
    /\ display_ctrl = r.display_ctrl
    /\ offsets = r.offsets
    /\ code = r.code
    /\ broken = r.broken
    /\ level = lv

\* the method returned res
Return(res, name, a) ==
    \E r \in {res} :
        /\ pins' = r.pins
        /\ display_func' = r.display_func
        /\ display_mode' = r.display_mode
        /\ display_ctrl' = r.display_ctrl
        /\ offsets' = r.offsets
        /\ code' = r.code
        /\ level' = levels_after(level, r.ev, 1, Len(r.ev))
        /\ en0' = level[EN]
        /\ log' = r.ev
        /\ panicked' = r.panicked
        /\ op' = name
        /\ args' = a
        /\ UNCHANGED broken

\* a builder method: consumes the value and returns it
Configure(r, name, a) ==
    /\ ~panicked
    /\ ncfg < MaxCfg
    /\ ncfg' = ncfg + 1
    /\ phase' = IF phase = "cfg" THEN "cfg" ELSE "recfg"
    /\ Return(r, name, a)

\* a method of the built display
Operate(r, name, a) ==
    /\ ~panicked
    /\ phase # "cfg"
    /\ UNCHANGED <<phase, ncfg>>
    /\ Return(r, name, a)

WithCols ==
    \E c \in ColsInputs : Configure(with_cols(Self, c), "with_cols", <<c>>)

WithHalfBus ==
    Configure(with_half_bus(Self), "with_half_bus", <<>>)

WithFullBus ==
    Configure(with_full_bus(Self), "with_full_bus", <<>>)

WithRw ==
    Configure(with_rw(Self), "with_rw", <<>>)

WithBacklight ==
    Configure(with_backlight(Self), "with_backlight", <<>>)

WithSize ==
    \E v \in {Dots5x10, Dots5x8} : Configure(with_size(Self, v), "with_size", <<v>>)

WithLines ==
    \E v \in {FourLines, TwoLines, OneLine} :
        Configure(with_lines(Self, v), "with_lines", <<v>>)

WithLayout ==
    \E v \in {LayoutLeftToRight, LayoutRightToLeft} :
        Configure(with_layout(Self, v), "with_layout", <<v>>)

WithDisplay ==
    \E v \in {DisplayOn, DisplayOff} :
        Configure(with_display(Self, v), "with_display", <<v>>)

WithCursor ==
    \E v \in {CursorOn, CursorOff} :
        Configure(with_cursor(Self, v), "with_cursor", <<v>>)

WithBlink ==
    \E v \in {BlinkOn, BlinkOff} :
        Configure(with_blink(Self, v), "with_blink", <<v>>)

WithAutoscroll ==
    \E v \in {AutoScrollOn, AutoScrollOff} :
        Configure(with_autoscroll(Self, v), "with_autoscroll", <<v>>)

WithReliableInit ==
    \E d \in ToggleDelays :
        Configure(with_reliable_init(Self, d), "with_reliable_init", <<d>>)

\* with_reliable_init on a value not yet built, the call not being counted
ReliableInit ==
    /\ ~panicked
    /\ phase = "cfg"
    /\ UNCHANGED <<phase, ncfg>>
    /\ \E d \in ToggleDelays :
           Return(with_reliable_init(Self, d), "with_reliable_init", <<d>>)

Build ==
    /\ ~panicked
    /\ phase' = "run"
    /\ UNCHANGED ncfg
    /\ Return(build(Self), "build", <<>>)

PrintText ==
    \E text \in Texts : Operate(print(Self, text), "print", text)

Write ==
    \E b \in Bytes : Operate(write(Self, b), "write", <<b>>)

Clear ==
    Operate(clear(Self), "clear", <<>>)

Home ==
    Operate(home(Self), "home", <<>>)

SetPosition ==
    \E p \in Positions, checks \in BOOLEAN :
        Operate(set_position(Self, p[1], p[2], checks), "set_position", p)

SetScroll ==
    \E dir \in {ScrollRight, ScrollLeft}, n \in 0..MaxDist :
        Operate(set_scroll(Self, dir, n), "set_scroll", <<dir, n>>)

SetLayout ==
    \E v \in {LayoutLeftToRight, LayoutRightToLeft} :
        Operate(set_layout(Self, v), "set_layout", <<v>>)

SetDisplay ==
    \E v \in {DisplayOn, DisplayOff} :
        Operate(set_display(Self, v), "set_display", <<v>>)

SetCursor ==
    \E v \in {CursorOn, CursorOff} :
        Operate(set_cursor(Self, v), "set_cursor", <<v>>)

SetBlink ==
    \E v \in {BlinkOn, BlinkOff} :
        Operate(set_blink(Self, v), "set_blink", <<v>>)

SetAutoscroll ==
    \E v \in {AutoScrollOn, AutoScrollOff} :
        Operate(set_autoscroll(Self, v), "set_autoscroll", <<v>>)

SetBacklight ==
    \E v \in {BacklightOn, BacklightOff} :
        Operate(set_backlight(Self, v), "set_backlight", <<v>>)

SetCharacter ==
    \E l \in Locations, map \in Glyphs :
        Operate(set_character(Self, l, map), "set_character", <<l>> \o map)

(***************************************************************************)
(* Spec: construction, configuration and build.  A value made by new() is  *)
(* taken through at most MaxCfg builder calls, before or after build().    *)
(***************************************************************************)
Fresh ==
    /\ log = <<>>
    /\ op = "new"
    /\ args = <<>>
    /\ phase = "cfg"
    /\ ncfg = 0
    /\ panicked = FALSE
    /\ en0 = level[EN]

Init ==
    /\ \E bad \in FaultSets, lv \in InitLevels : Holds(new(bad), lv)
    /\ Fresh

Next ==
    \/ WithCols
    \/ WithHalfBus
    \/ WithFullBus
    \/ WithRw
    \/ WithBacklight
    \/ WithSize
    \/ WithLines
    \/ WithLayout
    \/ WithDisplay
    \/ WithCursor
    \/ WithBlink
    \/ WithAutoscroll
    \/ WithReliableInit
    \/ Build

Spec ==
    Init /\ [][Next]_vars

(***************************************************************************)
(* SpecRun: a configured display is built and then used without end.  It   *)
(* starts from the values the builder chains below return.                 *)
(***************************************************************************)
Chains ==
    {[bus |-> "half", rw |-> FALSE, bl |-> FALSE, four |-> FALSE, two |-> FALSE,
      high |-> FALSE, bad |-> {}],
     [bus |-> "full", rw |-> TRUE, bl |-> TRUE, four |-> TRUE, two |-> FALSE,
      high |-> TRUE, bad |-> {}],
     [bus |-> "half", rw |-> TRUE, bl |-> FALSE, four |-> FALSE, two |-> TRUE,
      high |-> TRUE, bad |-> {EN}],
     [bus |-> "none", rw |-> FALSE, bl |-> FALSE, four |-> FALSE, two |-> FALSE,
      high |-> TRUE, bad |-> {}]}

\* new(rs, en, delay) followed by the with_* calls of chain c
Configured(c) ==
    LET s1 == IF c.bus = "half" THEN with_half_bus(new(c.bad))
              ELSE IF c.bus = "full" THEN with_full_bus(new(c.bad))
              ELSE new(c.bad)
        s2 == IF c.rw THEN with_rw(s1) ELSE s1
        s3 == IF c.bl THEN with_backlight(s2) ELSE s2
    IN  IF c.four THEN with_lines(s3, FourLines)
        ELSE IF c.two THEN with_lines(s3, TwoLines)
        ELSE s3

InitRun ==
    /\ \E c \in Chains : Holds(Configured(c), [i \in ControlLines |-> c.high])
    /\ Fresh

NextRun ==
    \/ ReliableInit
    \/ Build
    \/ PrintText
    \/ Write
    \/ Clear
    \/ Home
    \/ SetPosition
    \/ SetScroll
    \/ SetLayout
    \/ SetDisplay
    \/ SetCursor
    \/ SetBlink
    \/ SetAutoscroll
    \/ SetBacklight
    \/ SetCharacter

SpecRun ==
    InitRun /\ [][NextRun]_vars

(***************************************************************************)
(* Reading the log of the most recent method                               *)
(***************************************************************************)
\* position j holds a call set(i, _)
IsSet(j, i) ==
    log[j].k = "set" /\ log[j].pin = i

\* position j holds a write of a data line
IsData(j) ==
    log[j].k = "set" /\ log[j].pin \in D0..D7

\* position j drives EN high: an enable pulse begins
IsPulse(j) ==
    IsSet(j, EN) /\ log[j].val

\* the positions of the enable pulses, in order
Pulses ==
    SelectSeq([j \in 1..Len(log) |-> j], IsPulse)

\* the pulse before the k-th of P, 0 for the first
Prev(P, k) ==
    IF k = 1 THEN 0 ELSE P[k - 1]

\* the last position before j that holds a call set(i, _), 0 when there is none
LastSet(i, j) ==
    IF \E d \in 1..(j - 1) : IsSet(j - d, i)
    THEN j - (CHOOSE d \in 1..(j - 1) :
                  IsSet(j - d, i) /\ \A e \in 1..(d - 1) : ~IsSet(j - e, i))
    ELSE 0

\* the bit the cycle of the k-th pulse wrote to line i; a line the cycle
\* did not write counts so that no number is matched
BitOn(P, k, i) ==
    IF \E m \in (Prev(P, k) + 1)..(P[k] - 1) : IsSet(m, i)
    THEN (IF log[LastSet(i, P[k])].val THEN 1 ELSE 0)
    ELSE -256

\* the number on D7..D4 at the k-th pulse
Nibble(P, k) ==
    8 * BitOn(P, k, D7) + 4 * BitOn(P, k, D6) + 2 * BitOn(P, k, D5) + BitOn(P, k, D4)

\* the number on D7..D0 at the k-th pulse
Octet(P, k) ==
    16 * Nibble(P, k) + 8 * BitOn(P, k, D3) + 4 * BitOn(P, k, D2)
    + 2 * BitOn(P, k, D1) + BitOn(P, k, D0)

\* enable pulses per transmitted byte, and data lines per update cycle
PerByte ==
    IF mode(Self) = FourBits THEN 2 ELSE 1

Active ==
    IF mode(Self) = FourBits THEN 4 ELSE 8

\* pulses of the handshake of build()
HandshakePulses ==
    IF mode(Self) = FourBits THEN 4 ELSE 3

\* the byte of the n-th transmission after the first h pulses
ByteAt(P, h, n) ==
    IF mode(Self) = FourBits
    THEN 16 * Nibble(P, h + 2 * n - 1) + Nibble(P, h + 2 * n)
    ELSE Octet(P, h + n)

\* RS was written before position j, and the last value written is v
RsIs(j, v) ==
    LastSet(RS, j) > 0 /\ log[LastSet(RS, j)].val = v

\* a wait of at least n microseconds lies between positions a and b
Waits(a, b, n) ==
    \E d \in (a + 1)..(b - 1) : log[d].k = "delay" /\ log[d].us >= n

\* position j holds a call set(EN, _) that moved the line
DroveEn(j) ==
    IsSet(j, EN) /\ log[j].res = "ok"

\* the level of EN when the call at position j is made
EnHighAt(j) ==
    IF \E d \in 1..(j - 1) : DroveEn(j - d)
    THEN log[j - (CHOOSE d \in 1..(j - 1) :
                      DroveEn(j - d) /\ \A e \in 1..(d - 1) : ~DroveEn(j - e))].val
    ELSE en0

\* the data slots the bus width needs
Required ==
    IF mode(Self) = FourBits THEN D4..D7 ELSE D0..D7

(***************************************************************************)
(* Claims                                                                  *)
(***************************************************************************)
\* C1 (SpecRun): with RS, EN and every data pin of the bus width bound and
\* no drive failing, error() is Error::None after build() and after every
\* runtime operation that follows.  Violated: validate stores InvalidMode.
C1_NoErrorWhenBound ==
    (phase = "run" /\ {RS, EN} \cup Required \subseteq pins /\ broken = {})
        => error(Self) = ErrNone

\* C2 (SpecRun): a transmission of one byte b (write: data register; clear
\* and home: command register) makes exactly two enable pulses in 4-bit
\* mode, the first with bits 7..4 of b on D7..D4 and the second with bits
\* 3..0, and exactly one in 8-bit mode, with bits 7..0 on D7..D0.
C2_SendCycles ==
    op \in {"write", "clear", "home"} =>
        \E P \in {Pulses} :
        \E b \in {IF op = "write" THEN args[1]
                  ELSE IF op = "clear" THEN ClearDisplay ELSE ReturnHome} :
            IF mode(Self) = FourBits
            THEN /\ Len(P) = 2
                 /\ Nibble(P, 1) = b \div 16
                 /\ Nibble(P, 2) = b % 16
            ELSE /\ Len(P) = 1
                 /\ Octet(P, 1) = b

C2_Witness ==
    /\ op = "write"
    /\ args = <<165>>
    /\ mode(Self) = FourBits
    /\ D4..D7 \subseteq pins
    /\ Len(Pulses) = 2

\* C3 (SpecRun): every update cycle writes EN low, then the active data
\* lines from D7 downward, then EN high and EN low, once; no data line is
\* written outside a cycle; and when EN is bound and its driver works, EN is
\* low whenever a data line is written.
C3_UpdateCycle ==
    /\ \A j \in 1..Len(log) :
           IsPulse(j) =>
               /\ j - Active - 1 >= 1
               /\ IsSet(j - Active - 1, EN) /\ ~log[j - Active - 1].val
               /\ \A n \in 1..Active : IsSet(j - Active - 1 + n, D7 + 1 - n)
               /\ j + 1 <= Len(log)
               /\ IsSet(j + 1, EN) /\ ~log[j + 1].val
               /\ j + 2 <= Len(log) => ~IsPulse(j + 2)
    /\ \A j \in 1..Len(log) :
           IsData(j) => \E d \in 1..Active : j + d <= Len(log) /\ IsPulse(j + d)
    /\ EN \in pins \ broken =>
           \A j \in 1..Len(log) : IsData(j) => ~EnHighAt(j)

C3_Witness ==
    /\ op = "build"
    /\ en0
    /\ EN \in pins \ broken
    /\ D0..D7 \subseteq pins
    /\ \E j \in 1..Len(log) : IsData(j) /\ log[j].res = "ok"

C5_PowerUp ==
    op = "build" =>
        /\ Len(log) >= 4
        /\ log[1].k = "delay" /\ log[1].us >= 40000
        /\ IsSet(2, RS) /\ ~log[2].val
        /\ IsSet(3, EN) /\ ~log[3].val
        /\ RW \in pins => IsSet(4, RW) /\ ~log[4].val
        /\ RW \notin pins => \A j \in 1..Len(log) : ~IsSet(j, RW)
        /\ \A j \in 1..Len(log) :
               (IsData(j) \/ IsPulse(j)) => j > (IF RW \in pins THEN 4 ELSE 3)

C5_Witness ==
    /\ op = "build"
    /\ RW \in pins
    /\ IsSet(4, RW)
    /\ log[1].us = 50000

\* C6 (Spec): in 4-bit mode build() makes four update cycles with 3, 3, 3
\* and 2 on D7..D4, RS low, before the function-set command, and waits at
\* least 4500 microseconds after the first and after the second and at
\* least 150 after the third.
C6_HalfBusHandshake ==
    (op = "build" /\ mode(Self) = FourBits) =>
        \E P \in {Pulses} :
            /\ Len(P) >= 6
            /\ Nibble(P, 1) = 3
            /\ Nibble(P, 2) = 3
            /\ Nibble(P, 3) = 3
            /\ Nibble(P, 4) = 2
            /\ \A n \in 1..4 : RsIs(P[n], FALSE)
            /\ Waits(P[1], P[2], 4500)
            /\ Waits(P[2], P[3], 4500)
            /\ Waits(P[3], P[4], 150)
            /\ \A n \in 2..4 : LastSet(RS, P[n]) < P[1]
            /\ ByteAt(P, 4, 1) = Or8(SetDisplayFunc, display_func)

C6_Witness ==
    /\ op = "build"
    /\ mode(Self) = FourBits
    /\ D4..D7 \subseteq pins
    /\ broken = {}
    /\ Len(Pulses) >= 6
    /\ Nibble(Pulses, 4) = 2

\* C7 (Spec): in 8-bit mode build() sends function-set three times and waits
\* at least 4500 microseconds after the first and after the second and at
\* least 150 after the third, before the committing function-set.
\* Violated: the code waits 4500, then 150, then not at all.
C7_FullBusHandshake ==
    (op = "build" /\ mode(Self) = EightBits) =>
        \E P \in {Pulses} :
            /\ Len(P) >= 4
            /\ \A n \in 1..4 : Octet(P, n) = Or8(SetDisplayFunc, display_func)
            /\ Waits(P[1], P[2], 4500)
            /\ Waits(P[2], P[3], 4500)
            /\ Waits(P[3], P[4], 150)

\* C8 (Spec): after the handshake build() sends function-set, display
\* control, entry-mode-set, clear-display and return-home, in this order and
\* nothing else, each followed by a wait of at least CMD_DELAY; validation
\* comes after them all, so its verdict on the error code is the last word.
C8_CommitOrder ==
    op = "build" =>
        \E P \in {Pulses} :
            /\ Len(P) = HandshakePulses + 5 * PerByte
            /\ ByteAt(P, HandshakePulses, 1) = Or8(SetDisplayFunc, display_func)
            /\ ByteAt(P, HandshakePulses, 2) = Or8(SetDisplayCtrl, display_ctrl)
            /\ ByteAt(P, HandshakePulses, 3) = Or8(SetDisplayMode, display_mode)
            /\ ByteAt(P, HandshakePulses, 4) = ClearDisplay
            /\ ByteAt(P, HandshakePulses, 5) = ReturnHome
            /\ \A n \in 1..5 :
                   /\ RsIs(P[HandshakePulses + n * PerByte], FALSE)
                   /\ Waits(P[HandshakePulses + n * PerByte],
                            IF n < 5
                            THEN P[HandshakePulses + n * PerByte + 1]
                            ELSE Len(log) + 1,
                            CMD_DELAY)
            /\ code = validate(Self).code

C8_Witness ==
    /\ op = "build"
    /\ mode(Self) = EightBits
    /\ broken = {EN}
    /\ display_ctrl # DEFAULT_DISPLAY_CTRL
    /\ code = validate(Self).code
    /\ Len(Pulses) = 8

\* C9 (SpecRun): after build() the error code is InvalidMode exactly when
\* none of the data pins the bus width needs is bound.  Violated: validate
\* stores InvalidMode when one of them is bound and nothing when none is.
C9_Validation ==
    op = "build" => (code = ErrInvalidMode <=> Required \cap pins = {})

\* the method finished without a call of fn set storing a code
Clean ==
    \A j \in 1..Len(log) : ~failed(log, j)

\* C11 (SpecRun): the error code is Error::None at construction, and once it
\* is not Error::None no reliable-init, build or runtime operation makes it
\* Error::None again.
C11_Sticky ==
    /\ [](op = "new" => code = ErrNone)
    /\ [][code # ErrNone => code' # ErrNone]_vars

C11_Witness ==
    /\ op \in {"home", "write", "set_cursor"}
    /\ Clean
    /\ code = ErrInvalidMode

\* the call at position j of ev found its slot empty
Unbound(ev, j) ==
    ev[j].k = "set" /\ ev[j].res = "nopin"

\* the calls ev without what each of them found
Plain(ev) ==
    [j \in 1..Len(ev) |->
        [k |-> ev[j].k, pin |-> ev[j].pin, val |-> ev[j].val, us |-> ev[j].us]]

\* the value s with every slot its bus width needs bound
Twin(s) ==
    [s EXCEPT !.pins = @ \cup {RS, EN}
                         \cup (IF mode(s) = FourBits THEN D4..D7 ELSE D0..D7)]

\* the method called name with arguments a, on the value s
Apply(name, a, s) ==
    CASE name = "with_reliable_init" -> with_reliable_init(s, a[1])
      [] name = "build" -> build(s)
      [] name = "print" -> print(s, a)
      [] name = "write" -> write(s, a[1])
      [] name = "clear" -> clear(s)
      [] name = "home" -> home(s)
      [] name = "set_position" -> set_position(s, a[1], a[2], FALSE)
      [] name = "set_scroll" -> set_scroll(s, a[1], a[2])
      [] name = "set_layout" -> set_layout(s, a[1])
      [] name = "set_display" -> set_display(s, a[1])
      [] name = "set_cursor" -> set_cursor(s, a[1])
      [] name = "set_blink" -> set_blink(s, a[1])
      [] name = "set_autoscroll" -> set_autoscroll(s, a[1])
      [] name = "set_backlight" -> set_backlight(s, a[1])
      [] name = "set_character" -> set_character(s, a[1], Tail(a))

\* C12 (SpecRun): a method that writes to an empty slot among RS, EN and the
\* data slots of the bus width makes the same calls, in the same order and
\* with the same waits, as it makes with those slots bound; it leaves the
\* registers, the offsets, the bindings and the control lines as that run
\* leaves them; and when the last write that stored a code found slot i
\* empty, the code it leaves is the missing-pin variant of i (whose
\* discriminant is i).
C12_UnboundWrite ==
    [][(/\ ~panicked'
        /\ \E j \in 1..Len(log') :
               Unbound(log', j) /\ log'[j].pin \in {RS, EN} \cup Required)
       => \E r \in {Apply(op', args', Twin(Self))} :
              /\ Plain(log') = Plain(r.ev)
              /\ display_func' = r.display_func
              /\ display_mode' = r.display_mode
              /\ display_ctrl' = r.display_ctrl
              /\ offsets' = r.offsets
              /\ pins' = pins
              /\ level' = levels_after(level, r.ev, 1, Len(r.ev))
              /\ \A j \in 1..Len(log') :
                     (/\ Unbound(log', j)
                      /\ \A k \in (j + 1)..Len(log') : ~failed(log', k))
                         => code' = log'[j].pin /\ code' \in RS..D7
      ]_vars

C12_Witness ==
    /\ op = "set_character"
    /\ D4..D7 \cap pins = {}
    /\ \E j \in 1..Len(log) : Unbound(log, j) /\ log[j].pin = D6
    /\ Len(Pulses) = 18
    /\ code = D4

\* C13 (SpecRun): outside build(), a method none of whose writes found an
\* empty slot leaves the error code as it was, whether or not a drive
\* failed.  Violated: fn set stores index.into() when the drive of a bound
\* pin returns Err.
C13_DriveFailureSwallowed ==
    [][(op' # "build" /\ \A j \in 1..Len(log') : log'[j].res # "nopin")
           => code' = code]_vars


\* C14 (SpecRun): the wait that write makes before its transmission is
\* strictly longer than the wait that follows the command of home.
\* Violated: CHR_DELAY is 450 and CMD_DELAY is 3500.
C14_CharDelayLonger ==
    op = "write" =>
        \E h \in {home(Self).ev} :
            /\ log[1].k = "delay"
            /\ h[Len(h)].k = "delay"
            /\ log[1].us > h[Len(h)].us

\* the first position after j that is not a wait, Len(log) + 1 when none is
NextWrite(j) ==
    IF \E d \in (j + 1)..Len(log) : log[d].k # "delay"
    THEN CHOOSE d \in (j + 1)..Len(log) :
             log[d].k # "delay" /\ \A e \in (j + 1)..(d - 1) : log[e].k = "delay"
    ELSE Len(log) + 1

\* the k-th pulse of P ends a transmission made by send
EndsSend(k) ==
    IF mode(Self) = EightBits THEN TRUE
    ELSE IF op = "build" THEN k > HandshakePulses /\ (k - HandshakePulses) % 2 = 0
    ELSE k % 2 = 0

\* C15 (SpecRun): after the last enable pulse of every transmission made
\* with RS low, in build() and in every runtime operation, a wait of at
\* least CMD_DELAY comes before the next pin write.  Violated: in
\* set_character the command is followed by the CHR_DELAY of the first row,
\* and in the 8-bit handshake by 150 microseconds and then by nothing.
C15_CommandWait ==
    \E P \in {Pulses} :
        \A k \in 1..Len(P) :
            (EndsSend(k) /\ RsIs(P[k], FALSE))
                => Waits(P[k] + 1, NextWrite(P[k] + 1), CMD_DELAY)

\* the row offsets for a display of m columns
OffsetsFor(m) ==
    [i \in 0..3 |-> CASE i = 0 -> 0
                      [] i = 1 -> 64
                      [] i = 2 -> m
                      [] OTHER -> 64 + m]

\* C16 (Spec): new() leaves the offsets [0, 0x40, 16, 0x50]; with_cols(c)
\* leaves [0, 0x40, m, 0x40 + m] with m the smaller of c and 31; every other
\* builder method, and build(), leave the offsets as they were.
C16_Offsets ==
    /\ [](op = "new" => offsets = OffsetsFor(16))
    /\ [][IF op' = "with_cols"
          THEN offsets' = OffsetsFor(IF args'[1] < 31 THEN args'[1] ELSE 31)
          ELSE offsets' = offsets]_vars

C16_Witness ==
    /\ op = "with_cols"
    /\ args = <<40>>
    /\ offsets[2] = 31
    /\ offsets[3] = 95

\* the line count lines() reports, as a number of rows
LineCount ==
    IF lines(Self) = FourLines THEN 4
    ELSE IF lines(Self) = TwoLines THEN 2
    ELSE 1

\* the byte of the one transmission of set_position
PositionByte ==
    ByteAt(Pulses, 0, 1)

\* the address command for column col of the row with offset index idx, the
\* sum taken as the u8 it is
AddressOf(idx, col) ==
    Or8(SetDDRAMAddr, (offsets[idx] + col) % 256)

\* C17 (SpecRun): set_position(col, row) that returns addresses the row of
\* index lineCount - 1 when row >= lineCount and the row of index row
\* otherwise, lineCount being 1, 2 or 4 as lines() reports.
C17_RowClamp ==
    (op = "set_position" /\ ~panicked) =>
        PositionByte = AddressOf(IF args[2] >= LineCount
                                 THEN LineCount - 1 ELSE args[2], args[1])

C17_Witness ==
    /\ op = "set_position"
    /\ ~panicked
    /\ args = <<3, 4>>
    /\ LineCount = 2
    /\ PositionByte = 195

\* C18 as stated (SpecRun): set_position(col, row) with row >= 4 uses the
\* offset of index 3 whatever the line count.  Violated: the row is clamped
\* a second time, to the line count.
C18_RowThree ==
    (op = "set_position" /\ ~panicked /\ args[2] >= 4) =>
        PositionByte = AddressOf(3, args[1])

\* C18 amended (SpecRun): set_position(col, row) with row >= 4 uses the
\* offset of index 3 when four lines are configured and the offset of index
\* lineCount - 1 (1 or 0) when two lines or one line are.
C18_RowFourOrMore ==
    (op = "set_position" /\ ~panicked /\ args[2] >= 4) =>
        PositionByte = AddressOf(IF LineCount = 4 THEN 3 ELSE LineCount - 1, args[1])

C18_Witness ==
    /\ op = "set_position"
    /\ ~panicked
    /\ args = <<3, 4>>
    /\ LineCount = 1
    /\ PositionByte = 131

\* C19 (SpecRun): set_position(col, row) sends exactly one command, with
\* byte 0x80 | (offsets[clamped row] + col), waits at least CMD_DELAY after
\* it, and changes no register, offset or binding; set_position(8, 0) with
\* the default offsets sends 0x88.  Violated: when offsets[clamped row] +
\* col exceeds 255 the call aborts or sends the sum modulo 256.
C19_OneCommand ==
    [][op' = "set_position" =>
           /\ ~panicked'
           /\ (Len(Pulses) = PerByte)'
           /\ PositionByte' = Or8(SetDDRAMAddr,
                                  offsets[IF args'[2] >= LineCount
                                          THEN LineCount - 1 ELSE args'[2]]
                                  + args'[1])
           /\ (RsIs(Len(log), FALSE))'
           /\ (Len(log) > 0 /\ log[Len(log)].k = "delay"
               /\ log[Len(log)].us >= CMD_DELAY)'
           /\ (args' = <<8, 0>> /\ offsets = OffsetsFor(16)) => PositionByte' = 136
           /\ UNCHANGED <<display_func, display_mode, display_ctrl, offsets, pins>>
      ]_vars

\* C20 (Spec): lines() returns v right after with_lines(v), whatever builder
\* calls came before.  Violated: with_lines(TwoLines) after
\* with_size(Dots5x10) or with_lines(FourLines) leaves both bits set, which
\* lines() reads as FourLines.
C20_LinesRoundTrip ==
    op = "with_lines" => lines(Self) = args[1]


\* the call e drives EN high
IsPulseEvent(e) ==
    e.k = "set" /\ e.pin = EN /\ e.val

\* the call e writes RS low: a command begins
IsCommandEvent(e) ==
    e.k = "set" /\ e.pin = RS /\ ~e.val

\* the call e writes RS high: a data write begins
IsDataEvent(e) ==
    e.k = "set" /\ e.pin = RS /\ e.val

\* the attribute turned on and then off, or off and then on when it is on
TwiceBlink ==
    IF blink(Self) = BlinkOff
    THEN set_blink(set_blink(Self, BlinkOn), BlinkOff)
    ELSE set_blink(set_blink(Self, BlinkOff), BlinkOn)

TwiceCursor ==
    IF cursor(Self) = CursorOff
    THEN set_cursor(set_cursor(Self, CursorOn), CursorOff)
    ELSE set_cursor(set_cursor(Self, CursorOff), CursorOn)

TwiceDisplay ==
    IF display(Self) = DisplayOff
    THEN set_display(set_display(Self, DisplayOn), DisplayOff)
    ELSE set_display(set_display(Self, DisplayOff), DisplayOn)

TwiceAutoscroll ==
    IF autoscroll(Self) = AutoScrollOff
    THEN set_autoscroll(set_autoscroll(Self, AutoScrollOn), AutoScrollOff)
    ELSE set_autoscroll(set_autoscroll(Self, AutoScrollOff), AutoScrollOn)

\* C21 (SpecRun): from every register state, set_blink, set_cursor,
\* set_display and set_autoscroll called twice, on then off (off then on
\* when the attribute is on), leave the attribute as its getter read it
\* before, leave all three registers equal to their starting values, and
\* send exactly two commands and no data.
C21_ToggleTwice ==
    \A r \in {TwiceBlink, TwiceCursor, TwiceDisplay, TwiceAutoscroll} :
        /\ r.display_ctrl = display_ctrl
        /\ r.display_mode = display_mode
        /\ r.display_func = display_func
        /\ blink(r) = blink(Self)
        /\ cursor(r) = cursor(Self)
        /\ display(r) = display(Self)
        /\ autoscroll(r) = autoscroll(Self)
        /\ Len(SelectSeq(r.ev, IsCommandEvent)) = 2
        /\ Len(SelectSeq(r.ev, IsDataEvent)) = 0
        /\ Len(SelectSeq(r.ev, IsPulseEvent)) = 2 * PerByte

C21_Witness ==
    /\ op = "set_cursor"
    /\ args = <<CursorOff>>
    /\ display_ctrl = Or8(DisplayOn, BlinkOn)
    /\ TwiceCursor.display_ctrl = display_ctrl
    /\ Len(SelectSeq(TwiceCursor.ev, IsPulseEvent)) = 2 * PerByte

\* the runtime toggles, and the bit each of them names
Toggles ==
    {"set_display", "set_cursor", "set_blink", "set_autoscroll", "set_layout"}

OwnBit(name) ==
    CASE name = "set_display" -> DisplayOn
      [] name = "set_cursor" -> CursorOn
      [] name = "set_blink" -> BlinkOn
      [] name = "set_autoscroll" -> AutoScrollOn
      [] name = "set_layout" -> LayoutLeftToRight

\* the byte of the first transmission of the method
FirstByte ==
    ByteAt(Pulses, 0, 1)

\* the method made one transmission, a command, and then waited CMD_DELAY
OneCommand ==
    /\ Len(Pulses) = PerByte
    /\ Len(SelectSeq(log, IsCommandEvent)) = 1
    /\ Len(SelectSeq(log, IsDataEvent)) = 0
    /\ log[Len(log)].k = "delay"
    /\ log[Len(log)].us >= CMD_DELAY
    /\ Len(log) - 1 = Pulses[Len(Pulses)] + 1

\* C22 (SpecRun): set_display, set_cursor and set_blink change no bit of the
\* control register but the one they name, and leave the entry-mode
\* register; set_autoscroll and set_layout likewise with the two registers
\* exchanged; all five leave the function register, the offsets and the
\* bindings, and send one command, 0x08 | control or 0x04 | entry-mode with
\* the register as updated, followed by CMD_DELAY.
C22_ToggleFrame ==
    /\ [](op \in Toggles =>
              /\ OneCommand
              /\ FirstByte = IF op \in {"set_autoscroll", "set_layout"}
                             THEN Or8(SetDisplayMode, display_mode)
                             ELSE Or8(SetDisplayCtrl, display_ctrl))
    /\ [][op' \in Toggles =>
              /\ IF op' \in {"set_autoscroll", "set_layout"}
                 THEN /\ And8(display_mode', Not8(OwnBit(op')))
                             = And8(display_mode, Not8(OwnBit(op')))
                      /\ display_ctrl' = display_ctrl
                 ELSE /\ And8(display_ctrl', Not8(OwnBit(op')))
                             = And8(display_ctrl, Not8(OwnBit(op')))
                      /\ display_mode' = display_mode
              /\ display_func' = display_func
              /\ offsets' = offsets
              /\ pins' = pins
         ]_vars

C22_Witness ==
    /\ op = "set_layout"
    /\ args = <<LayoutRightToLeft>>
    /\ display_mode = AutoScrollOn
    /\ FirstByte = Or8(SetDisplayMode, AutoScrollOn)
    /\ OneCommand

\* C23 (SpecRun): right after set_X(v), and after with_X(v) applied to any
\* reachable value, the getter of X returns v, for X among display, cursor,
\* blink, autoscroll and layout.
C23_SetThenGet ==
    /\ op \in {"set_display", "with_display"} => display(Self) = args[1]
    /\ op \in {"set_cursor", "with_cursor"} => cursor(Self) = args[1]
    /\ op \in {"set_blink", "with_blink"} => blink(Self) = args[1]
    /\ op \in {"set_autoscroll", "with_autoscroll"} => autoscroll(Self) = args[1]
    /\ op \in {"set_layout", "with_layout"} => layout(Self) = args[1]
    /\ \A v \in {DisplayOn, DisplayOff} : display(with_display(Self, v)) = v
    /\ \A v \in {CursorOn, CursorOff} : cursor(with_cursor(Self, v)) = v
    /\ \A v \in {BlinkOn, BlinkOff} : blink(with_blink(Self, v)) = v
    /\ \A v \in {AutoScrollOn, AutoScrollOff} : autoscroll(with_autoscroll(Self, v)) = v
    /\ \A v \in {LayoutLeftToRight, LayoutRightToLeft} : layout(with_layout(Self, v)) = v

C23_Witness ==
    /\ op = "set_blink"
    /\ args = <<BlinkOn>>
    /\ blink(Self) = BlinkOn
    /\ cursor(Self) = CursorOff
    /\ display(Self) = DisplayOff


\* enable pulses of the method that belong to no transmission of send: the
\* nibbles of the 4-bit handshake
Loose ==
    IF op = "build" /\ mode(Self) = FourBits THEN HandshakePulses ELSE 0

\* transmissions the method made, P being its pulses
Sent(P) ==
    (Len(P) - Loose) \div PerByte

\* the n-th transmission is a command with a byte in lo..hi
CommandIn(P, n, lo, hi) ==
    /\ RsIs(P[Loose + n * PerByte], FALSE)
    /\ ByteAt(P, Loose, n) \in lo..hi

\* the byte of the last command of the method with a byte in lo..hi, -1 when
\* the method sent none
LastCommand(P, lo, hi) ==
    IF \E n \in 1..Sent(P) : CommandIn(P, n, lo, hi)
    THEN ByteAt(P, Loose, CHOOSE n \in 1..Sent(P) :
                              /\ CommandIn(P, n, lo, hi)
                              /\ \A m \in (n + 1)..Sent(P) : ~CommandIn(P, m, lo, hi))
    ELSE -1

\* the last display-control command (0x08..0x0F) and the last entry-mode
\* command (0x04..0x07) of the method
LastCtrl ==
    LastCommand(Pulses, 8, 15)

LastMode ==
    LastCommand(Pulses, 4, 7)

\* the methods that send the control register, and the entry-mode register
SendsCtrl ==
    {"build", "set_display", "set_cursor", "set_blink"}

SendsMode ==
    {"build", "set_autoscroll", "set_layout"}

\* C24 (SpecRun): after build(), only these methods change the control
\* register and the entry-mode register; each of them, and build(), sends
\* 0x08 | control register as its last display-control command, respectively
\* 0x04 | entry-mode register as its last entry-mode command; and no other
\* method sends a command of that kind with another payload.  Hence between
\* methods the last command of each kind carries the register.
C24_ControllerInStep ==
    /\ [](phase = "run" =>
              \E c \in {LastCtrl}, m \in {LastMode} :
                  /\ c = IF op \in SendsCtrl \/ c # -1
                         THEN Or8(SetDisplayCtrl, display_ctrl) ELSE -1
                  /\ m = IF op \in SendsMode \/ m # -1
                         THEN Or8(SetDisplayMode, display_mode) ELSE -1)
    /\ [][phase' = "run" =>
              /\ display_ctrl' # display_ctrl => op' \in SendsCtrl
              /\ display_mode' # display_mode => op' \in SendsMode
         ]_vars

C24_Witness ==
    /\ phase = "run"
    /\ op = "set_blink"
    /\ display_ctrl = 7
    /\ LastCtrl = 15
    /\ LastMode = -1

\* C25 (SpecRun): set_scroll(direction, n) sends n commands and nothing
\* else, each with byte 0x10 | 0x08 | direction and each followed by
\* CMD_DELAY; with n = 0 it makes no call at all.
C25_Scroll ==
    op = "set_scroll" =>
        \E P \in {Pulses} :
            /\ Len(P) = args[2] * PerByte
            /\ Len(SelectSeq(log, IsCommandEvent)) = args[2]
            /\ Len(SelectSeq(log, IsDataEvent)) = 0
            /\ args[2] = 0 => log = <<>>
            /\ \A n \in 1..args[2] :
                   /\ ByteAt(P, 0, n) = Or8(Or8(CursorShift, MoveDisplay), args[1])
                   /\ RsIs(P[n * PerByte], FALSE)
                   /\ Waits(P[n * PerByte] + 1, NextWrite(P[n * PerByte] + 1), CMD_DELAY)

C25_Witness ==
    /\ op = "set_scroll"
    /\ args = <<ScrollRight, 2>>
    /\ Len(Pulses) = 2 * PerByte
    /\ ByteAt(Pulses, 0, 2) = 28

C27_Glyph ==
    op = "set_character" =>
        \E P \in {Pulses} :
            /\ Len(P) = 9 * PerByte
            /\ Len(SelectSeq(log, IsCommandEvent)) = 1
            /\ Len(SelectSeq(log, IsDataEvent)) = 8
            /\ ByteAt(P, 0, 1) = Or8(SetCGramAddr, (args[1] % 8) * 8)
            /\ RsIs(P[PerByte], FALSE)
            /\ \A n \in 1..8 :
                   /\ ByteAt(P, 0, n + 1) = args[n + 1]
                   /\ RsIs(P[(n + 1) * PerByte], TRUE)

C27_Witness ==
    /\ op = "set_character"
    /\ args[1] = 17
    /\ ByteAt(Pulses, 0, 1) = 72
    /\ ByteAt(Pulses, 0, 3) = 10
    /\ ByteAt(Pulses, 0, 6) = 14


\* the first enable pulse of the n-th transmission, as an index into P
Opening(n) ==
    Loose + (n - 1) * PerByte + 1

\* C28 (SpecRun): with RW bound, no method writes RW high; every
\* transmission writes RW low after the pulses of the one before and before
\* its own first pulse; and at every enable pulse of build() and of every
\* other method, the nibbles of the 4-bit handshake included, the method
\* has driven RW low, so that the line is low when the method returns.
C28_WriteMode ==
    RW \in pins =>
        \E P \in {Pulses} :
            /\ \A j \in 1..Len(log) : IsSet(j, RW) => ~log[j].val
            /\ \A n \in 1..Sent(P) :
                   LastSet(RW, P[Opening(n)]) > Prev(P, Opening(n))
            /\ \A k \in 1..Len(P) :
                   /\ LastSet(RW, P[k]) > 0
                   /\ log[LastSet(RW, P[k])].res = "ok"
            /\ Len(P) > 0 => ~level[RW]

C28_Witness ==
    /\ op = "build"
    /\ RW \in pins
    /\ mode(Self) = FourBits
    /\ IsSet(4, RW)
    /\ LastSet(RW, Pulses[4]) = 4
    /\ Len(Pulses) = 14
    /\ ~level[RW]

\* C29 (Spec): with_reliable_init(d) sends six commands and nothing else;
\* each is a display-control command carrying the cursor and blink bits of
\* the register, each comes right after a wait of d microseconds, and the
\* display bit of each differs from that of the one before.
C29_ReliableInit ==
    op = "with_reliable_init" =>
        \E P \in {Pulses} :
            /\ Len(P) = 6 * PerByte
            /\ Len(SelectSeq(log, IsCommandEvent)) = 6
            /\ Len(SelectSeq(log, IsDataEvent)) = 0
            /\ \A n \in 1..6 :
                   /\ RsIs(P[n * PerByte], FALSE)
                   /\ ByteAt(P, 0, n) \in 8..15
                   /\ And8(ByteAt(P, 0, n), 3) = And8(display_ctrl, 3)
                   /\ n < 6 => Bit(ByteAt(P, 0, n), 2) # Bit(ByteAt(P, 0, n + 1), 2)
                   /\ LastSet(RS, P[Opening(n)]) > Prev(P, Opening(n)) + 1
                   /\ log[LastSet(RS, P[Opening(n)]) - 1].k = "delay"
                   /\ log[LastSet(RS, P[Opening(n)]) - 1].us = args[1]

C29_Witness ==
    /\ op = "with_reliable_init"
    /\ cursor(Self) = CursorOn
    /\ Len(Pulses) = 12
    /\ ByteAt(Pulses, 0, 1) = 14
    /\ ByteAt(Pulses, 0, 6) = 10

\* the builder methods other than with_reliable_init
Builders ==
    {"with_cols", "with_half_bus", "with_full_bus", "with_rw", "with_backlight",
     "with_size", "with_lines", "with_layout", "with_display", "with_cursor",
     "with_blink", "with_autoscroll"}

\* C30 (Spec): new() and every builder method other than with_reliable_init
\* write no pin and make no wait: they leave every line and the error code
\* as they were.
C30_BuilderNoIo ==
    /\ [](op \in Builders \cup {"new"} => log = <<>>)
    /\ [][op' \in Builders => level' = level /\ code' = code]_vars

C30_Witness ==
    /\ op = "with_rw"
    /\ phase = "cfg"
    /\ ncfg = 2
    /\ RW \in pins
    /\ D4 \in pins
    /\ level[RW]
    /\ log = <<>>


\* C31 (Spec): mode() is FourBits after new(); with_half_bus makes it
\* FourBits and with_full_bus EightBits; no other builder method, and not
\* build(), changes it; and a bus-binding call leaves every bit of the
\* function register but 0x10 as it was.
C31_BusWidth ==
    /\ [](op = "new" => mode(Self) = FourBits)
    /\ [](op = "with_half_bus" => mode(Self) = FourBits)
    /\ [](op = "with_full_bus" => mode(Self) = EightBits)
    /\ [][IF op' \in {"with_half_bus", "with_full_bus"}
          THEN And8(display_func', Not8(EightBits)) = And8(display_func, Not8(EightBits))
          ELSE And8(display_func', EightBits) = And8(display_func, EightBits)]_vars

C31_Witness ==
    /\ op = "with_half_bus"
    /\ D0..D7 \subseteq pins
    /\ mode(Self) = FourBits
    /\ ncfg = 2

\* C32 (Spec): once build() has returned, no with_* method is applied to the
\* value.  Violated: build() returns the same type it consumed, so every
\* with_* method can be called on the built display.
C32_NoConfigAfterBuild ==
    [][phase # "cfg" => op' \notin Builders \cup {"with_reliable_init"}]_vars


\* build(), with_reliable_init and the runtime methods
Online ==
    {"build", "with_reliable_init", "print", "write", "clear", "home",
     "set_position", "set_scroll", "set_character", "set_layout", "set_display",
     "set_cursor", "set_blink", "set_autoscroll", "set_backlight"}

\* C33 (SpecRun): build() and every runtime method leave the function
\* register, the offsets and the bindings as they were, hence also the bus
\* width; and new(..).with_half_bus(..).build() leaves the function register
\* 0x00.
C33_FunctionFrame ==
    /\ [](op = "new" =>
              /\ build(with_half_bus(new(broken))).display_func = 0
              /\ mode(build(with_half_bus(new(broken)))) = FourBits)
    /\ [][op' \in Online =>
              /\ display_func' = display_func
              /\ offsets' = offsets
              /\ pins' = pins]_vars

C33_Witness ==
    /\ op = "set_character"
    /\ phase = "run"
    /\ display_func = Or8(EightBits, FourLines)
    /\ D0..D7 \subseteq pins
    /\ Len(Pulses) = 9

\* C34 (Spec): with_reliable_init leaves the control register as it found
\* it.  Violated: unless the register is exactly Display::On the rounds are
\* on then off, so a register with the display on and the cursor or the
\* blink on is left with the display off.
C34_ReliableInitFrame ==
    [][op' = "with_reliable_init" => display_ctrl' = display_ctrl]_vars

\* C35 (SpecRun): set_position never aborts, and the sum of the column and
\* the offset of the row it addresses never exceeds 255.  Violated: the sum
\* is not bounded; set_position(200, 3) on four lines adds 200 to 0x50.
C35_NoOverflow ==
    op = "set_position" =>
        /\ ~panicked
        /\ offsets[IF args[2] >= LineCount THEN LineCount - 1 ELSE args[2]]
               + args[1] <= 255

\* C36 (Spec): with_size leaves the value lines() returns as it was, and
\* with_lines(OneLine) and with_lines(TwoLines) leave the size bit as it
\* was.  Violated: the size bit 0x04 is one of the two bits of FourLines
\* (0x0C), so with_size(Dots5x10) on two lines reads as four lines, and
\* with_size(Dots5x8) on four lines reads as two.
C36_SizeAndLines ==
    [][/\ op' = "with_size" => lines([display_func |-> display_func']) = lines(Self)
       /\ (op' = "with_lines" /\ args'[1] \in {OneLine, TwoLines})
              => And8(display_func', Dots5x10) = And8(display_func, Dots5x10)
      ]_vars


\* C37 (SpecRun): in 4-bit mode, with EN bound and its driver working, after
\* build() and after every method that follows it EN is low, every enable
\* pulse of the method reached the line, and the pulses the method made
\* after the handshake nibbles are even in number; so is their sum since
\* the handshake.
C37_NibbleFraming ==
    (phase = "run" /\ mode(Self) = FourBits /\ EN \in pins \ broken) =>
        \E P \in {Pulses} :
            /\ ~level[EN]
            /\ (Len(P) - Loose) % 2 = 0
            /\ \A k \in 1..Len(P) :
                   /\ log[P[k]].res = "ok"
                   /\ DroveEn(P[k] + 1)
                   /\ ~log[P[k] + 1].val

C37_Witness ==
    /\ phase = "run"
    /\ op = "print"
    /\ Len(args) = 1
    /\ mode(Self) = FourBits
    /\ EN \in pins \ broken
    /\ Len(Pulses) = 2
    /\ ~level[EN]

\* the value s with the two optional slots bound
Optional(s) ==
    [s EXCEPT !.pins = @ \cup {RW, A}]

\* the call e is not a write to an optional slot that is empty
Kept(e) ==
    ~(e.k # "delay" /\ e.pin \in {RW, A} \ pins)

\* C38 (SpecRun): with RW or A unbound, every method makes the calls it
\* makes with both bound, less the writes to the empty slot, and leaves the
\* same registers, offsets, error code and RS and EN levels, the line of
\* the empty slot staying as it was; the code is never NoPinRW while RW is
\* unbound; and set_backlight with A unbound makes no call and changes
\* nothing.
C38_OptionalSlots ==
    [][(~panicked' /\ {RW, A} \ pins # {}) =>
           /\ RW \notin pins => code' # ErrorFrom(RW)
           /\ \E r \in {Apply(op', args', Optional(Self))} :
                  /\ Plain(log') = Plain(SelectSeq(r.ev, Kept))
                  /\ display_func' = r.display_func
                  /\ display_mode' = r.display_mode
                  /\ display_ctrl' = r.display_ctrl
                  /\ offsets' = r.offsets
                  /\ code' = r.code
                  /\ \E lv \in {levels_after(level, r.ev, 1, Len(r.ev))} :
                         \A i \in ControlLines :
                             level'[i] = IF i \in {RW, A} \ pins THEN level[i] ELSE lv[i]
           /\ pins' = pins
           /\ (op' = "set_backlight" /\ A \notin pins) =>
                  /\ log' = <<>>
                  /\ level' = level
                  /\ code' = code
                  /\ UNCHANGED <<display_func, display_mode, display_ctrl, offsets>>
      ]_vars

C38_Witness ==
    /\ op = "write"
    /\ phase = "run"
    /\ {RW, A} \cap pins = {}
    /\ \A j \in 1..Len(log) : ~IsSet(j, RW)
    /\ Len(Pulses) = PerByte
    /\ code # ErrorFrom(RW)
    /\ level[RW]

\* C39 as stated (SpecRun): the conversion of the index of every slot 0..11
\* that a write can find empty is a missing-pin variant (discriminants
\* 0..10), hence not Error::None.
\* Violated: index 11, the backlight slot A, converts to Error::None.
C39_AllSlots ==
    \A i \in Slots : i \notin pins => ErrorFrom(i) \in RS..D7

\* C39 amended (SpecRun): the conversion of every slot index 0..10 (RS, EN,
\* RW, D0..D7) is the missing-pin variant of that slot; index 11 (A)
\* converts to Error::None, but fn set is never called with it; so a method
\* in which a write failed never leaves Error::None.
C39_RequiredSlots ==
    /\ \A i \in RS..D7 : ErrorFrom(i) = i /\ ErrorFrom(i) # ErrNone
    /\ ErrorFrom(A) = ErrNone
    /\ \A j \in 1..Len(log) : log[j].k = "set" => log[j].pin \in RS..D7
    /\ ~Clean => code # ErrNone

C39_Witness ==
    /\ op = "clear"
    /\ D4 \notin pins
    /\ ~Clean
    /\ code = ErrorFrom(D4)
    /\ code # ErrNone


=============================================================================
